---- MODULE Spec2Model ----
(***************************************************************************)
(* A model of the colour analysis scripts of semhl.nvim:                   *)
(*   analyze_colors.py   parse_rgb, load_cache_colors, analyze_distribution,*)
(*                       calculate_randomness_score, display_statistics,   *)
(*                       main                                              *)
(*   generate_colors.py  parse_hex_color, the generation loop of main      *)
(* Text is modelled as sequences of one-character strings, so that the     *)
(* scanning, counting and pattern matching of the code are computed, not   *)
(* assumed.                                                                *)
(***************************************************************************)
EXTENDS Integers, Sequences, FiniteSets, TLC

VARIABLES
    \* load_cache_colors
    file,          \* the cache file: a sequence of line numbers of Catalog
    isFile,        \* path.is_file()
    pos,           \* number of lines the for loop has consumed
    in_block,
    found_block,
    brace_depth,
    colors,        \* the dict, in insertion order: a sequence of <<key, value>>
    recorded,      \* history: the file positions whose entry was stored
    lpc            \* "open", "scan", "finish", "returned", "FileNotFound",
                   \* "BlockNotFound", "BlockEmpty", "idle"

cacheVars == <<file, isFile, pos, in_block, found_block, brace_depth, colors,
               recorded, lpc>>

VARIABLES
    \* the colour literal parsers
    literal,       \* the string handed to a parser
    intended,      \* history: the colour the literal spells, <<>> if none
    parsed,        \* what the parser gave: a triple or a ValueError
    labArg,        \* the triple handed to rgb_to_lab, <<>> before the call
    ppc            \* "start", "rgb", "hex", "lab", "idle"

parseVars == <<literal, intended, parsed, labArg, ppc>>

VARIABLES
    \* analyze_colors.main
    args_colors,        \* args.colors: the colour strings, in order
    args_cache,         \* args.cache: [given, isFile, file]
    args_bg,            \* args.bg
    bg_rgb,
    entries,            \* a sequence of <<label, rgb>>
    has_cache_data,
    cache_start_index,
    printed,            \* the entries whose line was printed, in order
    collected,          \* the entries whose L, a, b, dE were appended to the four lists
    skipped,            \* history: the colour strings reported as skipped
    mpc                 \* "args", "bg", "colors", "cache", "check", "output",
                        \* "print", "summary", "statistics", "done",
                        \* "usage_error", "bg_error", "no_valid", "idle"

mainVars == <<args_colors, args_cache, args_bg, bg_rgb, entries, has_cache_data,
              cache_start_index, printed, collected, skipped, mpc>>

VARIABLES
    \* the statistics stage
    scipy,              \* the module global stats is not None (lines 30-35)
    values,             \* the argument of analyze_distribution
    dist,               \* its result
    apc,                \* "call", "returned", "idle"
    l_values, a_values, b_values, delta_e_values,
    col_stats,          \* l_stats, a_stats, b_stats, delta_stats
    col_dist,           \* l_dist, a_dist, b_dist, delta_dist
    randomness,         \* what calculate_randomness_score returned
    dpc                 \* "statistics", "distribution", "ks", "score",
                        \* "interpret", "done", "KeyError", "TypeError", "idle"

distVars == <<values, dist, apc>>

statVars == <<l_values, a_values, b_values, delta_e_values, col_stats, col_dist,
              randomness, dpc>>

VARIABLES
    \* the generation loop of generate_colors.main
    count,              \* args.count
    min_delta_e,        \* args.min_delta_e: [kind, value], kind "None",
                        \* "number" or "nan"
    gen_colors,         \* the list colors: each kept colour, as its dE to
                        \* the background
    attempts,
    max_attempts,
    warned,             \* the warning of line 222 was printed
    gpc                 \* "setup", "loop", "done", "idle"

genVars == <<count, min_delta_e, gen_colors, attempts, max_attempts, warned,
             gpc>>

vars == <<cacheVars, parseVars, mainVars, scipy, distVars, statVars, genVars>>

-----------------------------------------------------------------------------
(* Bounds *)

MaxLines == 4

-----------------------------------------------------------------------------
(* Text helpers *)

Q == "\""

c_colors == <<"c", "o", "l", "o", "r", "s">>

\* ["<key>"]
Idx(key) == <<"[", Q>> \o key \o <<Q, "]">>

\* "<text>"
Quoted(text) == <<Q>> \o text \o <<Q>>

\* str.count(ch) for a one-character needle
RECURSIVE Count(_, _)
Count(s, ch) ==
    IF s = <<>> THEN 0
    ELSE (IF Head(s) = ch THEN 1 ELSE 0) + Count(Tail(s), ch)

\* needle in s
Contains(s, needle) ==
    \E i \in 1..(Len(s) - Len(needle) + 1) :
        SubSeq(s, i, i + Len(needle) - 1) = needle

HexDigits ==
    {"0", "1", "2", "3", "4", "5", "6", "7", "8", "9",
     "a", "b", "c", "d", "e", "f", "A", "B", "C", "D", "E", "F"}

\* the characters \s matches
Whitespace == {" ", "\t", "\n", "\r"}

CharAt(s, i) == IF i >= 1 /\ i <= Len(s) THEN s[i] ELSE ""

-----------------------------------------------------------------------------
(* load_cache_colors: the entry pattern                                    *)
(*   \["(?P<key>[^"]+)"\]\s*=\s*"(?P<value>#[0-9a-fA-F]{6})"               *)

RECURSIVE SkipWS(_, _)
SkipWS(line, i) ==
    IF i <= Len(line) /\ line[i] \in Whitespace THEN SkipWS(line, i + 1) ELSE i

\* the first index >= i holding a double quote, Len(line)+1 when there is none
RECURSIVE NextQuote(_, _)
NextQuote(line, i) ==
    IF i > Len(line) \/ line[i] = Q THEN i ELSE NextQuote(line, i + 1)

NoMatch == [ok |-> FALSE, key |-> <<>>, value |-> <<>>]

\* the match of the pattern that starts at index s, if there is one
MatchAt(line, s) ==
    LET q == NextQuote(line, s + 2)
        e == SkipWS(line, q + 2)
        v == SkipWS(line, e + 1)
    IN  IF /\ CharAt(line, s) = "["
           /\ CharAt(line, s + 1) = Q
           /\ q > s + 2
           /\ CharAt(line, q) = Q
           /\ CharAt(line, q + 1) = "]"
           /\ CharAt(line, e) = "="
           /\ CharAt(line, v) = Q
           /\ CharAt(line, v + 1) = "#"
           /\ \A k \in 2..7 : CharAt(line, v + k) \in HexDigits
           /\ CharAt(line, v + 8) = Q
        THEN [ok |-> TRUE,
              key |-> SubSeq(line, s + 2, q - 1),
              value |-> SubSeq(line, v + 1, v + 7)]
        ELSE NoMatch

\* pattern.search(line): the leftmost match
RECURSIVE SearchFrom(_, _)
SearchFrom(line, s) ==
    IF s > Len(line) THEN NoMatch
    ELSE IF MatchAt(line, s).ok THEN MatchAt(line, s)
    ELSE SearchFrom(line, s + 1)

PatternSearch(line) == SearchFrom(line, 1)

\* line 310: '["colors"]' in line and "=" in line and "{" in line
IsOpener(line) ==
    /\ Contains(line, Idx(c_colors))
    /\ Contains(line, <<"=">>)
    /\ Contains(line, <<"{">>)

\* line.count("{") - line.count("}")
BraceBalance(line) == Count(line, "{") - Count(line, "}")

\* colors[key] = value on a dict kept in insertion order
DictHas(d, key) == \E i \in 1..Len(d) : d[i][1] = key

\* DictSet, had the first value stored under a key been kept
DictSet_KeepFirst(d, key, value) ==
    IF DictHas(d, key) THEN d ELSE Append(d, <<key, value>>)

DictSet(d, key, value) ==
    IF DictHas(d, key)
    THEN [i \in 1..Len(d) |-> IF d[i][1] = key THEN <<key, value>> ELSE d[i]]
    ELSE Append(d, <<key, value>>)

-----------------------------------------------------------------------------
(* The lines a cache file is made of *)

SP == <<" ", " ">>
EQS == <<" ", "=", " ">>
k_foo == <<"f", "o", "o">>
k_bar == <<"b", "a", "r">>
k_grp == <<"g", "r", "p">>
k_closing == <<"a", "}", "b">>
k_opening == <<"x", "{", "y">>
v_red == <<"#", "F", "F", "0", "0", "0", "0">>
v_green == <<"#", "0", "0", "f", "f", "0", "0">>
v_blue == <<"#", "0", "0", "0", "0", "F", "F">>
v_short == <<"#", "1", "2", "3", "4", "5">>
NL == <<"\n">>

Catalog == <<
    \*  1  ["colors"] = {
    Idx(c_colors) \o EQS \o <<"{">> \o NL,
    \*  2  ["colors"] = {}
    Idx(c_colors) \o EQS \o <<"{", "}">> \o NL,
    \*  3    ["foo"] = "#FF0000",
    SP \o Idx(k_foo) \o EQS \o Quoted(v_red) \o <<",">> \o NL,
    \*  4    ["foo"]="#00ff00",
    SP \o Idx(k_foo) \o <<"=">> \o Quoted(v_green) \o <<",">> \o NL,
    \*  5    ["bar"] = "#0000FF",
    SP \o Idx(k_bar) \o EQS \o Quoted(v_blue) \o <<",">> \o NL,
    \*  6  },
    <<"}", ",">> \o NL,
    \*  7    ["a}b"] = "#0000FF",
    SP \o Idx(k_closing) \o EQS \o Quoted(v_blue) \o <<",">> \o NL,
    \*  8    ["x{y"] = "#FF0000",
    SP \o Idx(k_opening) \o EQS \o Quoted(v_red) \o <<",">> \o NL,
    \*  9    ["grp"] = {
    SP \o Idx(k_grp) \o EQS \o <<"{">> \o NL,
    \* 10    ["bar"] = "#12345",
    SP \o Idx(k_bar) \o EQS \o Quoted(v_short) \o <<",">> \o NL,
    \* 11    ["bar"] = "#00ff00" }
    SP \o Idx(k_bar) \o EQS \o Quoted(v_green) \o <<" ", "}">> \o NL,
    \* 12    ["grp"] = { ["bar"] = "#FF0000" },
    SP \o Idx(k_grp) \o EQS \o <<"{", " ">> \o Idx(k_bar) \o EQS
       \o Quoted(v_red) \o <<" ", "}", ",">> \o NL
>>

NumLines == Len(Catalog)

\* what the scan reads of each line, computed once per line of the catalogue
LineOpener[i \in 1..NumLines] == IsOpener(Catalog[i])
LineBalance[i \in 1..NumLines] == BraceBalance(Catalog[i])
LineMatch[i \in 1..NumLines] == PatternSearch(Catalog[i])

-----------------------------------------------------------------------------
(* load_cache_colors: the scan *)

\* the locals of load_cache_colors before the first line is read (lines 302-305)
ScanStart ==
    [in_block |-> FALSE, found_block |-> FALSE, brace_depth |-> 0,
     colors |-> <<>>, recorded |-> {}, broke |-> FALSE]

\* ScanLine, had the entry pattern been tried before the depth test
ScanLine_MatchFirst(st, i, p) ==
    IF ~st.in_block
    THEN IF LineOpener[i]
         THEN [st EXCEPT !.in_block = TRUE, !.found_block = TRUE,
                         !.brace_depth = LineBalance[i]]
         ELSE st
    ELSE LET depth == st.brace_depth + LineBalance[i]
             m == LineMatch[i]
             kept == IF m.ok
                     THEN [st EXCEPT !.colors = DictSet(@, m.key, m.value),
                                     !.recorded = @ \cup {p}]
                     ELSE st
         IN  [kept EXCEPT !.brace_depth = depth, !.broke = (depth <= 0)]

\* One iteration of the for loop (lines 308-323) on line number i of the
\* catalogue, read at file position p.
ScanLine(st, i, p) ==
    IF ~st.in_block
    THEN IF LineOpener[i]
         THEN [st EXCEPT !.in_block = TRUE, !.found_block = TRUE,
                         !.brace_depth = LineBalance[i]]
         ELSE st
    ELSE LET depth == st.brace_depth + LineBalance[i]
             m == LineMatch[i]
         IN  IF depth <= 0
             THEN [st EXCEPT !.brace_depth = depth, !.broke = TRUE]
             ELSE IF m.ok
             THEN [st EXCEPT !.brace_depth = depth,
                             !.colors = DictSet(@, m.key, m.value),
                             !.recorded = @ \cup {p}]
             ELSE [st EXCEPT !.brace_depth = depth]

\* ScanOutcome, had the two tests been made in the other order
ScanOutcome_EmptyFirst(st) ==
    IF st.colors = <<>> THEN "BlockEmpty"
    ELSE IF ~st.found_block THEN "BlockNotFound"
    ELSE "returned"

\* lines 325-330: the outcome once the loop is over
ScanOutcome(st) ==
    IF ~st.found_block THEN "BlockNotFound"
    ELSE IF st.colors = <<>> THEN "BlockEmpty"
    ELSE "returned"

\* every file of at most MaxLines lines of the catalogue
Files == UNION {[1..n -> 1..NumLines] : n \in 0..MaxLines}

ScanState ==
    [in_block |-> in_block, found_block |-> found_block,
     brace_depth |-> brace_depth, colors |-> colors, recorded |-> recorded,
     broke |-> FALSE]

ParseIdle ==
    /\ literal = <<>> /\ intended = <<>> /\ labArg = <<>> /\ ppc = "idle"
    /\ parsed = [ok |-> FALSE, why |-> "", rgb |-> <<>>]

NoDist ==
    [type |-> "", keys |-> {}, uniformity_score |-> 0,
     ks_statistic |-> <<0, 1>>, ks_pvalue |-> "", cv |-> <<0, 1>>]

NoThreshold == [kind |-> "None", value |-> 0]

GenIdle ==
    /\ count = 0 /\ min_delta_e = NoThreshold /\ gen_colors = <<>>
    /\ attempts = 0 /\ max_attempts = 0 /\ warned = FALSE /\ gpc = "idle"

StatsIdle ==
    /\ scipy = TRUE
    /\ values = <<>> /\ dist = NoDist /\ apc = "idle"
    /\ l_values = <<>> /\ a_values = <<>> /\ b_values = <<>>
    /\ delta_e_values = <<>> /\ col_stats = <<>> /\ col_dist = <<>>
    /\ randomness = <<>> /\ dpc = "idle"

NoCache == [given |-> FALSE, isFile |-> FALSE, file |-> <<>>]

MainIdle ==
    /\ args_colors = <<>> /\ args_cache = NoCache /\ args_bg = <<>>
    /\ bg_rgb = <<>> /\ entries = <<>> /\ has_cache_data = FALSE
    /\ cache_start_index = 0 /\ printed = <<>> /\ collected = <<>>
    /\ skipped = <<>> /\ mpc = "idle"

CacheIdle ==
    /\ file = <<>> /\ isFile = FALSE /\ pos = 0
    /\ in_block = FALSE /\ found_block = FALSE /\ brace_depth = 0
    /\ colors = <<>> /\ recorded = {} /\ lpc = "idle"

InitCache ==
    /\ GenIdle
    /\ StatsIdle
    /\ ParseIdle
    /\ MainIdle
    /\ \/ isFile = FALSE /\ file = <<>>
       \/ isFile = TRUE /\ file \in Files
    /\ pos = 0
    /\ in_block = FALSE /\ found_block = FALSE /\ brace_depth = 0
    /\ colors = <<>> /\ recorded = {}
    /\ lpc = "open"

\* lines 297-299
OpenCache ==
    /\ lpc = "open"
    /\ lpc' = IF isFile THEN "scan" ELSE "FileNotFound"
    /\ UNCHANGED <<genVars, file, isFile, pos, in_block, found_block, brace_depth,
                   colors, recorded, parseVars, mainVars, scipy,
                   distVars, statVars>>

\* lines 308-323: the loop reads the next line
ReadLine ==
    /\ lpc = "scan"
    /\ pos < Len(file)
    /\ LET st == ScanLine(ScanState, file[pos + 1], pos + 1)
       IN  /\ in_block' = st.in_block
           /\ found_block' = st.found_block
           /\ brace_depth' = st.brace_depth
           /\ colors' = st.colors
           /\ recorded' = st.recorded
           /\ lpc' = IF st.broke THEN "finish" ELSE "scan"
    /\ pos' = pos + 1
    /\ UNCHANGED <<genVars, file, isFile, parseVars, mainVars, scipy, distVars,
                   statVars>>

\* line 308: the file has no more lines
EndOfFile ==
    /\ lpc = "scan"
    /\ pos = Len(file)
    /\ lpc' = "finish"
    /\ UNCHANGED <<genVars, file, isFile, pos, in_block, found_block, brace_depth,
                   colors, recorded, parseVars, mainVars, scipy,
                   distVars, statVars>>

\* lines 325-330
FinishCache ==
    /\ lpc = "finish"
    /\ lpc' = ScanOutcome(ScanState)
    /\ UNCHANGED <<genVars, file, isFile, pos, in_block, found_block, brace_depth,
                   colors, recorded, parseVars, mainVars, scipy,
                   distVars, statVars>>

NextCache == OpenCache \/ ReadLine \/ EndOfFile \/ FinishCache

SpecCache == InitCache /\ [][NextCache]_vars

-----------------------------------------------------------------------------
(* What the lines of the catalogue are, read by eye: the reference the     *)
(* claims about load_cache_colors are stated against.                      *)

\* the lines that open a table keyed "colors"
OpenerLines == {1, 2}

\* the lines that hold an entry ["key"] = "#RRGGBB", with its key and value
EntryLines == {3, 4, 5, 7, 8, 11, 12}

EntryKey(i) ==
    CASE i \in {3, 4} -> k_foo
      [] i \in {5, 11, 12} -> k_bar
      [] i = 7 -> k_closing
      [] i = 8 -> k_opening
      [] OTHER -> <<>>

EntryValue(i) ==
    CASE i \in {3, 8, 12} -> v_red
      [] i \in {4, 11} -> v_green
      [] i \in {5, 7} -> v_blue
      [] OTHER -> <<>>

\* the braces of a line that are table syntax, those inside a quoted
\* identifier left out: opened minus closed
TableBalance(i) ==
    CASE i \in {1, 9} -> 1
      [] i \in {6, 11} -> 0 - 1
      [] OTHER -> 0

Terminal == lpc \in {"returned", "BlockNotFound", "BlockEmpty"}

\* the position of the first opener line of f, 0 when there is none
OpenerPos(f) ==
    IF \E p \in 1..Len(f) : f[p] \in OpenerLines
    THEN CHOOSE p \in 1..Len(f) :
            /\ f[p] \in OpenerLines
            /\ \A q \in 1..(p - 1) : f[q] \notin OpenerLines
    ELSE 0

RECURSIVE SumOver(_, _, _, _)
SumOver(Bal(_), f, from, to) ==
    IF from > to THEN 0 ELSE Bal(f[from]) + SumOver(Bal, f, from + 1, to)

CountedBalance(i) == LineBalance[i]

\* the first position at or after `first` where the depth, counted with
\* Bal from the opener line at o on, is back to <= 0; Len(f)+1 when none
ClosePos(Bal(_), f, o, first) ==
    IF \E c \in first..Len(f) : SumOver(Bal, f, o, c) <= 0
    THEN CHOOSE c \in first..Len(f) :
            /\ SumOver(Bal, f, o, c) <= 0
            /\ \A d \in first..(c - 1) : SumOver(Bal, f, o, d) > 0
    ELSE Len(f) + 1

\* the positions strictly between o and c that hold an entry line
EntriesBetween(f, o, c) == {p \in (o + 1)..(c - 1) : f[p] \in EntryLines}

\* last value per key over a set of positions, as a set of <<key, value>>
LastWins(f, P) ==
    {<<EntryKey(f[p]), EntryValue(f[p])>> :
        p \in {x \in P : \A y \in P : EntryKey(f[y]) = EntryKey(f[x]) => y <= x}}

DictItems(d) == {d[i] : i \in 1..Len(d)}

DictKeysUnique(d) == \A i, j \in 1..Len(d) : d[i][1] = d[j][1] => i = j

-----------------------------------------------------------------------------
(* C1 *)

\* the file has one colors block of the claimed shape: an opener of balance
\* +1, a later line that brings the counted depth back to <= 0, and at
\* least one entry line between the two
C1_Shape(f) ==
    LET o == OpenerPos(f)
        c == ClosePos(CountedBalance, f, o, o + 1)
    IN  /\ o > 0
        /\ CountedBalance(f[o]) = 1
        /\ c <= Len(f)
        /\ EntriesBetween(f, o, c) # {}

C1_Expected(f) ==
    LET o == OpenerPos(f)
    IN  LastWins(f, EntriesBetween(f, o, ClosePos(CountedBalance, f, o, o + 1)))

\* C1: on a file with one colors block (opener of balance +1, entry lines,
\* a line bringing the depth back to <= 0) load_cache_colors returns exactly
\* the key -> value mapping of the entry lines strictly between the opener
\* and the closing line, values verbatim; lines before the opener, the
\* opener and the closing line contribute nothing.
C1_BlockMapping ==
    (isFile /\ Terminal /\ C1_Shape(file)) =>
        /\ lpc = "returned"
        /\ DictItems(colors) = C1_Expected(file)
        /\ DictKeysUnique(colors)

\* a block with a nested brace pair, closed by a line that itself holds an
\* entry, after an entry line that precedes the opener
C1_Witness ==
    /\ lpc = "returned"
    /\ C1_Shape(file)
    /\ Len(file) = 4
    /\ file[1] \in EntryLines
    /\ file[3] = 12
    /\ file[4] = 11
    /\ Len(colors) = 1

-----------------------------------------------------------------------------
(* C2 *)

HasOpener(f) == \E p \in 1..Len(f) : f[p] \in OpenerLines

\* C2: a path that is not a regular file fails before any line is read;
\* otherwise the outcome is 'block not found' exactly when no line is an
\* opener, 'empty block' exactly when an opener was found and no entry was
\* recorded, and a non-empty mapping in every other case, closed block or
\* not.
C2_Outcome ==
    /\ lpc \in {"open", "scan", "finish", "returned", "FileNotFound",
                "BlockNotFound", "BlockEmpty"}
    /\ ~isFile => (lpc \in {"open", "FileNotFound"} /\ pos = 0)
    /\ isFile => lpc # "FileNotFound"
    /\ lpc = "finish" => (pos = Len(file) \/ brace_depth <= 0)
    /\ (isFile /\ Terminal) =>
        /\ lpc = "BlockNotFound" <=> ~HasOpener(file)
        /\ lpc = "BlockEmpty" <=> (HasOpener(file) /\ recorded = {})
        /\ lpc = "returned" <=> (HasOpener(file) /\ recorded # {})
        /\ lpc = "returned" => Len(colors) > 0

\* a mapping is returned from a block that is still open at end of file
C2_Witness ==
    /\ lpc = "returned"
    /\ pos = Len(file)
    /\ brace_depth > 0
    /\ Len(colors) > 0

-----------------------------------------------------------------------------
(* C3 *)

\* the positions inside the colors block: after the opener line and before
\* the line on which the brace opened on the opener line is closed
InsideBlock(f) ==
    LET o == OpenerPos(f)
    IN  IF o = 0 THEN {}
        ELSE (o + 1)..(ClosePos(TableBalance, f, o, o) - 1)

\* C3: every recorded entry comes from a line inside the colors block; no
\* entry of a later table, and none after the block has closed, is recorded.
C3_OnlyInsideBlock == \A p \in recorded : p \in InsideBlock(file)

-----------------------------------------------------------------------------
(* C4 *)

\* C4: every entry line inside a colors block (opened by an opener of
\* balance +1) is recorded, whatever characters other than a double quote its
\* identifier holds, and the scan ends on the line that closes the block.
C4_AnyIdentifier ==
    (isFile /\ Terminal /\ HasOpener(file)
            /\ TableBalance(file[OpenerPos(file)]) = 1) =>
        LET o == OpenerPos(file)
            c == ClosePos(TableBalance, file, o, o)
        IN  /\ \A p \in EntriesBetween(file, o, c) : p \in recorded
            /\ pos = IF c <= Len(file) THEN c ELSE Len(file)

-----------------------------------------------------------------------------
(* C5 *)

MaxOf(S) == CHOOSE x \in S : \A y \in S : y <= x

\* C5: when an identifier is on several recorded entry lines, the returned
\* mapping holds one entry for it, with the value of the last of those lines.
C5_LastWriteWins ==
    lpc = "returned" =>
        /\ DictKeysUnique(colors)
        /\ \A i \in 1..Len(colors) :
              LET P == {p \in recorded : EntryKey(file[p]) = colors[i][1]}
              IN  /\ P # {}
                  /\ colors[i][2] = EntryValue(file[MaxOf(P)])

\* an identifier was recorded twice, with two different values
C5_Witness ==
    /\ lpc = "returned"
    /\ \E p, q \in recorded :
          /\ p < q
          /\ EntryKey(file[p]) = EntryKey(file[q])
          /\ EntryValue(file[p]) # EntryValue(file[q])

-----------------------------------------------------------------------------
(* Colour literals: parse_rgb (analyze_colors.py) and parse_hex_color      *)
(* (generate_colors.py)                                                    *)

\* str.strip(): leading and trailing whitespace removed
RECURSIVE LStrip(_)
LStrip(s) ==
    IF s # <<>> /\ Head(s) \in Whitespace THEN LStrip(Tail(s)) ELSE s

RECURSIVE RStrip(_)
RStrip(s) ==
    IF s # <<>> /\ s[Len(s)] \in Whitespace
    THEN RStrip(SubSeq(s, 1, Len(s) - 1))
    ELSE s

Strip(s) == RStrip(LStrip(s))

\* str.lstrip('#'): every leading '#' removed
RECURSIVE LStripHash(_)
LStripHash(s) ==
    IF s # <<>> /\ Head(s) = "#" THEN LStripHash(Tail(s)) ELSE s

LowerChar(ch) ==
    CASE ch = "A" -> "a" [] ch = "B" -> "b" [] ch = "C" -> "c"
      [] ch = "D" -> "d" [] ch = "E" -> "e" [] ch = "F" -> "f"
      [] ch = "X" -> "x" [] ch = "Z" -> "z"
      [] OTHER -> ch

\* Lower, had the literal been left in the case it was given
Lower_AsGiven(s) == s

\* str.lower()
Lower(s) == [i \in 1..Len(s) |-> LowerChar(s[i])]

\* str.replace(",", " ")
ReplaceCommas(s) == [i \in 1..Len(s) |-> IF s[i] = "," THEN " " ELSE s[i]]

\* str.split(): the maximal runs of non-whitespace characters
RECURSIVE SplitFrom(_, _, _)
SplitFrom(s, cur, acc) ==
    IF s = <<>> THEN (IF cur = <<>> THEN acc ELSE Append(acc, cur))
    ELSE IF Head(s) \in Whitespace
    THEN SplitFrom(Tail(s), <<>>, IF cur = <<>> THEN acc ELSE Append(acc, cur))
    ELSE SplitFrom(Tail(s), Append(cur, Head(s)), acc)

Split(s) == SplitFrom(s, <<>>, <<>>)

\* the value of a digit character, 99 for a character that is no digit
DigitVal(ch) ==
    CASE ch = "0" -> 0 [] ch = "1" -> 1 [] ch = "2" -> 2 [] ch = "3" -> 3
      [] ch = "4" -> 4 [] ch = "5" -> 5 [] ch = "6" -> 6 [] ch = "7" -> 7
      [] ch = "8" -> 8 [] ch = "9" -> 9
      [] ch \in {"a", "A"} -> 10 [] ch \in {"b", "B"} -> 11
      [] ch \in {"c", "C"} -> 12 [] ch \in {"d", "D"} -> 13
      [] ch \in {"e", "E"} -> 14 [] ch \in {"f", "F"} -> 15
      [] OTHER -> 99

\* digits of the base, single underscores allowed between two digits
DigitsOk(s, base) ==
    /\ s # <<>>
    /\ \A i \in 1..Len(s) :
          \/ DigitVal(s[i]) < base
          \/ /\ s[i] = "_"
             /\ i > 1 /\ i < Len(s)
             /\ s[i - 1] # "_"

RECURSIVE DigitsValue(_, _, _)
DigitsValue(s, base, acc) ==
    IF s = <<>> THEN acc
    ELSE IF Head(s) = "_" THEN DigitsValue(Tail(s), base, acc)
    ELSE DigitsValue(Tail(s), base, acc * base + DigitVal(Head(s)))

BadInt == [ok |-> FALSE, val |-> 0]

\* int(s, base) of Python for base 10 and base 16: surrounding whitespace
\* dropped, an optional sign, for base 16 an optional 0x prefix (which may be
\* followed by one underscore), then the digits
IntLit(s, base) ==
    LET t == Strip(s)
        signed == t # <<>> /\ Head(t) \in {"+", "-"}
        u == IF signed THEN Tail(t) ELSE t
        prefixed == /\ base = 16 /\ Len(u) >= 2
                    /\ u[1] = "0" /\ u[2] \in {"x", "X"}
        w == IF prefixed THEN SubSeq(u, 3, Len(u)) ELSE u
        digits == IF prefixed /\ w # <<>> /\ Head(w) = "_" THEN Tail(w) ELSE w
    IN  IF DigitsOk(digits, base)
        THEN [ok |-> TRUE,
              val |-> IF signed /\ Head(t) = "-"
                      THEN 0 - DigitsValue(digits, base, 0)
                      ELSE DigitsValue(digits, base, 0)]
        ELSE BadInt

\* the ValueError of a parser, with the message that tells the causes apart
Malformed(why) == [ok |-> FALSE, why |-> why, rgb |-> <<>>]

Parsed(r, g, b) == [ok |-> TRUE, why |-> "", rgb |-> <<r, g, b>>]

\* "0123456789abcdef"
LowerHexDigits ==
    {"0", "1", "2", "3", "4", "5", "6", "7", "8", "9",
     "a", "b", "c", "d", "e", "f"}

\* lines 50-63 of parse_rgb: the three decimal components
ParseComponents(stripped) ==
    LET parts == Split(ReplaceCommas(stripped))
    IN  IF Len(parts) # 3 THEN Malformed("components")
        ELSE LET r == IntLit(parts[1], 10)
                 g == IntLit(parts[2], 10)
                 b == IntLit(parts[3], 10)
             IN  IF ~(r.ok /\ g.ok /\ b.ok) THEN Malformed("integers")
                 ELSE IF \E c \in {r.val, g.val, b.val} : ~(0 <= c /\ c <= 255)
                 THEN Malformed("range")
                 ELSE Parsed(r.val, g.val, b.val)

\* parse_rgb(value)
parse_rgb(value) ==
    LET low == Lower(Strip(value))
        stripped == IF low # <<>> /\ Head(low) = "#" THEN Tail(low) ELSE low
    IN  IF Len(stripped) = 6 /\ \A i \in 1..6 : stripped[i] \in LowerHexDigits
        THEN Parsed(IntLit(SubSeq(stripped, 1, 2), 16).val,
                    IntLit(SubSeq(stripped, 3, 4), 16).val,
                    IntLit(SubSeq(stripped, 5, 6), 16).val)
        ELSE ParseComponents(stripped)

\* parse_hex_color(hex_str)
parse_hex_color(hex_str) ==
    LET h == LStripHash(hex_str)
    IN  IF Len(h) = 6
        THEN LET r == IntLit(SubSeq(h, 1, 2), 16)
                 g == IntLit(SubSeq(h, 3, 4), 16)
                 b == IntLit(SubSeq(h, 5, 6), 16)
             IN  IF r.ok /\ g.ok /\ b.ok THEN Parsed(r.val, g.val, b.val)
                 ELSE Malformed("int")
        ELSE Malformed("length")

-----------------------------------------------------------------------------
(* The literals the parsers are given *)

DigitChars ==
    <<"0", "1", "2", "3", "4", "5", "6", "7", "8", "9",
      "a", "b", "c", "d", "e", "f">>

UpperDigitChars ==
    <<"0", "1", "2", "3", "4", "5", "6", "7", "8", "9",
      "A", "B", "C", "D", "E", "F">>

\* the decimal spelling of n in 0..999
Dec(n) ==
    IF n < 10 THEN <<DigitChars[n + 1]>>
    ELSE IF n < 100 THEN <<DigitChars[(n \div 10) + 1], DigitChars[(n % 10) + 1]>>
    ELSE <<DigitChars[(n \div 100) + 1], DigitChars[((n \div 10) % 10) + 1],
           DigitChars[(n % 10) + 1]>>

\* the two hex digits of n in 0..255
HexPair(n, chars) == <<chars[(n \div 16) + 1], chars[(n % 16) + 1]>>

Hex6(c, chars) ==
    HexPair(c[1], chars) \o HexPair(c[2], chars) \o HexPair(c[3], chars)

\* the component values the spelled colours are made of
CompValues == {0, 9, 10, 99, 100, 171, 255}

Colours == CompValues \X CompValues \X CompValues

Styles == 1..11

\* the spellings of a colour the literal format allows
Spell(c, style) ==
    CASE style = 1 -> Dec(c[1]) \o <<",">> \o Dec(c[2]) \o <<",">> \o Dec(c[3])
      [] style = 2 -> Dec(c[1]) \o <<" ">> \o Dec(c[2]) \o <<" ">> \o Dec(c[3])
      [] style = 3 -> Dec(c[1]) \o <<",", " ">> \o Dec(c[2]) \o <<" ">> \o Dec(c[3])
      [] style = 4 -> Dec(c[1]) \o <<"\t">> \o Dec(c[2]) \o <<" ", ",", " ">>
                      \o Dec(c[3])
      [] style = 5 -> <<" ">> \o Dec(c[1]) \o <<",">> \o Dec(c[2]) \o <<",">>
                      \o Dec(c[3]) \o <<"\n">>
      [] style = 6 -> Hex6(c, DigitChars)
      [] style = 7 -> Hex6(c, UpperDigitChars)
      [] style = 8 -> <<"#">> \o Hex6(c, DigitChars)
      [] style = 9 -> <<"#">> \o Hex6(c, UpperDigitChars)
      [] style = 10 -> <<" ", "#">> \o Hex6(c, UpperDigitChars) \o <<"\n">>
      [] OTHER -> <<"\t">> \o HexPair(c[1], UpperDigitChars)
                  \o HexPair(c[2], DigitChars) \o HexPair(c[3], DigitChars)
                  \o <<" ">>

\* component texts, well-formed and not
ComponentTexts ==
    {<<"0">>, <<"2", "5", "5">>, <<"2", "5", "6">>, <<"-", "1">>, <<"+", "7">>,
     <<"1", "_", "0">>, <<"1", ".", "5">>, <<"x">>, <<"0", "0", "7">>,
     <<"9", "9", "9">>, <<"0", "x", "1">>}

\* two-character texts, hex pairs and not
PairTexts ==
    {<<"f", "f">>, <<"0", "0">>, <<"A", "b">>, <<"-", "f">>, <<"+", "f">>,
     <<" ", "1">>, <<"z", "z">>, <<"0", "x">>, <<"a", "_">>}

OtherLiterals ==
    {a \o <<",">> \o b \o <<",">> \o c : a, b, c \in ComponentTexts}
    \cup {a \o b \o c : a, b, c \in PairTexts}
    \cup {<<"#">> \o a \o b \o c : a, b, c \in PairTexts}
    \cup {<<>>, <<"#">>, <<"1", ",", "2">>, <<"1", ",", "2", ",", "3", ",", "4">>,
          <<"f", "f", "0", "0", "0">>, <<"f", "f", "0", "0", "0", "0", "0">>,
          <<"#", "#", "f", "f", "0", "0", "0", "0">>,
          <<"#", " ", "f", "f", "0", "0", "0", "0">>,
          <<"1", ",", "2", ",", "3", "0">>}

NotParsed == [ok |-> FALSE, why |-> "", rgb |-> <<>>]

InitParse ==
    /\ GenIdle
    /\ StatsIdle
    /\ CacheIdle
    /\ MainIdle
    /\ \/ \E c \in Colours, style \in Styles :
            literal = Spell(c, style) /\ intended = c
       \/ literal \in OtherLiterals /\ intended = <<>>
    /\ parsed = NotParsed
    /\ labArg = <<>>
    /\ ppc = "start"

\* analyze_colors.main, lines 368 and 376: rgb = parse_rgb(...)
CallParseRgb ==
    /\ ppc = "start"
    /\ parsed' = parse_rgb(literal)
    /\ ppc' = "rgb"
    /\ UNCHANGED <<genVars, literal, intended, labArg, cacheVars, mainVars, scipy,
                   distVars, statVars>>

\* generate_colors.main, line 186: bg_r, bg_g, bg_b = parse_hex_color(args.bg)
CallParseHexColor ==
    /\ ppc = "start"
    /\ parsed' = parse_hex_color(literal)
    /\ ppc' = "hex"
    /\ UNCHANGED <<genVars, literal, intended, labArg, cacheVars, mainVars, scipy,
                   distVars, statVars>>

\* analyze_colors.main, lines 409 and 420, generate_colors.main, line 192:
\* the parsed triple is handed to rgb_to_lab
ConvertToLab ==
    /\ ppc \in {"rgb", "hex"}
    /\ parsed.ok
    /\ labArg' = parsed.rgb
    /\ ppc' = "lab"
    /\ UNCHANGED <<genVars, literal, intended, parsed, cacheVars, mainVars, scipy,
                   distVars, statVars>>

NextParse == CallParseRgb \/ CallParseHexColor \/ ConvertToLab

SpecParse == InitParse /\ [][NextParse]_vars

InByteRange(rgb) == \A i \in 1..Len(rgb) : 0 <= rgb[i] /\ rgb[i] <= 255

-----------------------------------------------------------------------------
(* C6 *)

\* C6: parse_rgb fails with ValueError or returns three integers in
\* [0,255], and every triple a colour literal parser (parse_rgb,
\* parse_hex_color) hands to the LAB conversion has its components in
\* [0,255].
C6_ByteRange ==
    /\ (ppc \in {"rgb", "hex"} /\ parsed.ok) =>
          (Len(parsed.rgb) = 3 /\ InByteRange(parsed.rgb))
    /\ ppc = "lab" => (Len(labArg) = 3 /\ InByteRange(labArg))

-----------------------------------------------------------------------------
(* C7 *)

\* C7: every spelling of a colour (decimal components separated by commas,
\* whitespace or both; six hex digits with or without '#', in either case;
\* surrounding whitespace) is parsed by parse_rgb to that colour.
C7_Spellings ==
    (ppc = "rgb" /\ intended # <<>>) => (parsed.ok /\ parsed.rgb = intended)

\* an upper-case hex spelling with '#' and surrounding whitespace was parsed
C7_Witness ==
    /\ ppc = "rgb"
    /\ intended = <<171, 255, 10>>
    /\ literal = Spell(intended, 10)
    /\ parsed.ok

-----------------------------------------------------------------------------
(* analyze_colors.main *)

\* load_cache_colors as main calls it: the scan run over the whole file
RECURSIVE ScanFrom(_, _, _)
ScanFrom(st, f, p) ==
    IF p > Len(f) \/ st.broke THEN st
    ELSE ScanFrom(ScanLine(st, f[p], p), f, p + 1)

load_cache_colors(cache) ==
    IF ~cache.isFile THEN [outcome |-> "FileNotFound", colors |-> <<>>]
    ELSE LET st == ScanFrom(ScanStart, cache.file, 1)
         IN  [outcome |-> ScanOutcome(st), colors |-> st.colors]

\* the order of Python tuples of integers
RECURSIVE TupleLess(_, _)
TupleLess(a, b) ==
    IF a = <<>> THEN b # <<>>
    ELSE IF b = <<>> THEN FALSE
    ELSE IF Head(a) # Head(b) THEN Head(a) < Head(b)
    ELSE TupleLess(Tail(a), Tail(b))

\* x put into a sequence sorted by rgb, after the items that do not sort
\* after it (list.sort is stable)
RECURSIVE InsertByRgb(_, _)
InsertByRgb(sorted, x) ==
    IF sorted = <<>> THEN <<x>>
    ELSE IF TupleLess(x[2], Head(sorted)[2]) THEN <<x>> \o sorted
    ELSE <<Head(sorted)>> \o InsertByRgb(Tail(sorted), x)

\* cache_entries.sort(key=lambda item: item[1])
RECURSIVE SortByRgb(_)
SortByRgb(items) ==
    IF items = <<>> THEN <<>>
    ELSE InsertByRgb(SortByRgb(SubSeq(items, 1, Len(items) - 1)),
                     items[Len(items)])

\* AppendIfValid, had a colour that fails to parse ended the batch
AppendIfValid_Abort(list, label, text) ==
    IF parse_rgb(text).ok THEN Append(list, <<label, parse_rgb(text).rgb>>)
    ELSE <<>>

\* lines 375-380 and 393-398: the entry is appended unless parse_rgb raises
AppendIfValid(list, label, text) ==
    IF parse_rgb(text).ok THEN Append(list, <<label, parse_rgb(text).rgb>>)
    ELSE list

\* lines 391-398: the entries of the items of the dict, in its order
RECURSIVE CacheEntries(_, _)
CacheEntries(items, acc) ==
    IF items = <<>> THEN acc
    ELSE CacheEntries(Tail(items),
                      AppendIfValid(acc, Head(items)[1], Head(items)[2]))

\* the command lines main is run on
a_red == <<"2", "5", "5", ",", "0", ",", "0">>
a_green == <<"#", "0", "0", "f", "f", "0", "0">>
a_blue == <<"0", " ", "0", " ", "2", "5", "5">>
a_range == <<"2", "5", "6", ",", "0", ",", "0">>
a_nothex == <<"z", "z", "0", "0", "0", "0">>
a_black == <<"0", ",", "0", ",", "0">>
a_two == <<"1", ",", "2">>

ArgTexts == {a_red, a_green, a_blue, a_range, a_nothex}

BgTexts == {a_black, a_two}

MaxArgs == 2

CacheFiles ==
    {<<>>, <<3, 5>>, <<1, 6>>, <<1, 3, 5, 6>>, <<1, 5, 4, 3>>, <<9, 1, 10, 12>>}

CacheArgs ==
    {NoCache, [given |-> TRUE, isFile |-> FALSE, file |-> <<>>]}
    \cup {[given |-> TRUE, isFile |-> TRUE, file |-> f] : f \in CacheFiles}

InitMain ==
    /\ GenIdle
    /\ StatsIdle
    /\ CacheIdle
    /\ ParseIdle
    /\ args_colors \in UNION {[1..n -> ArgTexts] : n \in 0..MaxArgs}
    /\ args_cache \in CacheArgs
    /\ args_bg \in BgTexts
    /\ bg_rgb = <<>>
    /\ entries = <<>>
    /\ has_cache_data = FALSE
    /\ cache_start_index = 0
    /\ printed = <<>>
    /\ collected = <<>>
    /\ skipped = <<>>
    /\ mpc = "args"

\* lines 364-365
CheckArgs ==
    /\ mpc = "args"
    /\ mpc' = IF args_colors = <<>> /\ ~args_cache.given
              THEN "usage_error" ELSE "bg"
    /\ UNCHANGED <<genVars, args_colors, args_cache, args_bg, bg_rgb, entries,
                   has_cache_data, cache_start_index, printed, collected,
                   skipped, cacheVars, parseVars, scipy, distVars,
                   statVars>>

\* lines 367-373
ParseBg ==
    /\ mpc = "bg"
    /\ IF parse_rgb(args_bg).ok
       THEN bg_rgb' = parse_rgb(args_bg).rgb /\ mpc' = "colors"
       ELSE bg_rgb' = bg_rgb /\ mpc' = "bg_error"
    /\ UNCHANGED <<genVars, args_colors, args_cache, args_bg, entries, has_cache_data,
                   cache_start_index, printed, collected, skipped, cacheVars,
                   parseVars, scipy, distVars, statVars>>

\* lines 374-380: one iteration of the loop over args.colors
ParseArg ==
    /\ mpc = "colors"
    /\ Len(entries) + Len(skipped) < Len(args_colors)
    /\ LET color_str == args_colors[Len(entries) + Len(skipped) + 1]
       IN  /\ entries' = AppendIfValid(entries, color_str, color_str)
           /\ skipped' = IF parse_rgb(color_str).ok THEN skipped
                         ELSE Append(skipped, color_str)
    /\ UNCHANGED <<genVars, args_colors, args_cache, args_bg, bg_rgb, has_cache_data,
                   cache_start_index, printed, collected, mpc, cacheVars,
                   parseVars, scipy, distVars, statVars>>

\* lines 382-401: the cache stage
CacheStage ==
    /\ mpc = "colors"
    /\ Len(entries) + Len(skipped) >= Len(args_colors)
    /\ cache_start_index' = Len(entries)
    /\ IF args_cache.given /\ load_cache_colors(args_cache).outcome = "returned"
       THEN LET cache_entries ==
                    SortByRgb(CacheEntries(load_cache_colors(args_cache).colors,
                                           <<>>))
            IN  /\ entries' = entries \o cache_entries
                /\ has_cache_data' = (Len(cache_entries) > 0)
       ELSE /\ entries' = entries
            /\ has_cache_data' = FALSE
    /\ mpc' = "check"
    /\ UNCHANGED <<genVars, args_colors, args_cache, args_bg, bg_rgb, printed, collected,
                   skipped, cacheVars, parseVars, scipy, distVars,
                   statVars>>

\* lines 403-417
CheckEntries ==
    /\ mpc = "check"
    /\ mpc' = IF entries = <<>> THEN "no_valid" ELSE "print"
    /\ UNCHANGED <<genVars, args_colors, args_cache, args_bg, bg_rgb, entries,
                   has_cache_data, cache_start_index, printed, collected,
                   skipped, cacheVars, parseVars, scipy, distVars,
                   statVars>>

\* PrintEntry, had the values of every entry been appended to the four lists
PrintEntry_CollectAll ==
    /\ mpc = "print"
    /\ Len(printed) < Len(entries)
    /\ LET idx == Len(printed)
       IN  /\ printed' = Append(printed, entries[idx + 1])
           /\ collected' = Append(collected, entries[idx + 1])
    /\ UNCHANGED <<genVars, args_colors, args_cache, args_bg, bg_rgb, entries,
                   has_cache_data, cache_start_index, skipped, mpc, cacheVars,
                   parseVars, scipy, distVars, statVars>>

\* lines 419-433: one iteration of the loop over entries
PrintEntry ==
    /\ mpc = "print"
    /\ Len(printed) < Len(entries)
    /\ LET idx == Len(printed)
       IN  /\ printed' = Append(printed, entries[idx + 1])
           /\ collected' = IF has_cache_data /\ idx >= cache_start_index
                           THEN Append(collected, entries[idx + 1])
                           ELSE collected
    /\ UNCHANGED <<genVars, args_colors, args_cache, args_bg, bg_rgb, entries,
                   has_cache_data, cache_start_index, skipped, mpc, cacheVars,
                   parseVars, scipy, distVars, statVars>>

\* lines 436-437
Summary ==
    /\ mpc = "print"
    /\ Len(printed) >= Len(entries)
    /\ mpc' = IF has_cache_data /\ collected # <<>> THEN "statistics" ELSE "done"
    /\ UNCHANGED <<genVars, args_colors, args_cache, args_bg, bg_rgb, entries,
                   has_cache_data, cache_start_index, printed, collected,
                   skipped, cacheVars, parseVars, scipy, distVars,
                   statVars>>

NextMain ==
    CheckArgs \/ ParseBg \/ ParseArg \/ CacheStage \/ CheckEntries
    \/ PrintEntry \/ Summary

SpecMain == InitMain /\ [][NextMain]_vars

-----------------------------------------------------------------------------
(* C8 *)

\* what the colour strings of the command lines spell, read by eye
ArgColour(text) ==
    CASE text = a_red -> <<255, 0, 0>>
      [] text = a_green -> <<0, 255, 0>>
      [] text = a_blue -> <<0, 0, 255>>
      [] OTHER -> <<>>

\* the entries the cache files hold, read by eye
CacheItems(cache) ==
    IF ~cache.given \/ ~cache.isFile THEN {}
    ELSE CASE cache.file = <<1, 3, 5, 6>> ->
                {<<k_foo, <<255, 0, 0>>>>, <<k_bar, <<0, 0, 255>>>>}
           [] cache.file = <<1, 5, 4, 3>> ->
                {<<k_foo, <<255, 0, 0>>>>, <<k_bar, <<0, 0, 255>>>>}
           [] cache.file = <<9, 1, 10, 12>> -> {<<k_bar, <<255, 0, 0>>>>}
           [] OTHER -> {}

RECURSIVE ValidDirect(_)
ValidDirect(texts) ==
    IF texts = <<>> THEN <<>>
    ELSE (IF ArgColour(Head(texts)) # <<>>
          THEN <<(<<Head(texts), ArgColour(Head(texts))>>)>> ELSE <<>>)
         \o ValidDirect(Tail(texts))

PastCacheStage ==
    mpc \in {"check", "no_valid", "print", "statistics", "done"}

\* C8: the analysed entries are the valid direct arguments in their order
\* followed by the valid cache entries; an argument that fails to parse and
\* a cache that fails to load remove nothing else; every entry is printed;
\* the run ends with 'no valid colors' only when there is no entry.
C8_Isolation ==
    LET direct == ValidDirect(args_colors)
        cached == CacheItems(args_cache)
    IN  /\ PastCacheStage =>
            /\ Len(entries) = Len(direct) + Cardinality(cached)
            /\ SubSeq(entries, 1, Len(direct)) = direct
            /\ {entries[i] : i \in (Len(direct) + 1)..Len(entries)} = cached
            /\ cache_start_index = Len(direct)
        /\ mpc = "no_valid" => entries = <<>>
        /\ mpc \in {"print", "statistics", "done"} => entries # <<>>
        /\ mpc \in {"statistics", "done"} => printed = entries

\* a run with a colour string that was skipped and a cache that failed to
\* load has printed the valid direct colour
C8_Witness ==
    /\ mpc = "done"
    /\ skipped # <<>>
    /\ args_cache.given /\ ~args_cache.isFile
    /\ Len(printed) = 1

-----------------------------------------------------------------------------
(* C17 *)

\* C17 as claimed: every valid colour of a batch, from a direct argument or
\* from the cache, adds its L, a, b and dE to the lists handed to the
\* statistics; the scored batch is the whole list of analysed entries.
C17_AsClaimed ==
    mpc \in {"statistics", "done"} =>
        /\ collected = entries
        /\ mpc = "statistics"

\* C17, amended: only the valid colours loaded from the cache add their L, a,
\* b and dE to the lists handed to the statistics, and the statistics are
\* run only when the cache gave at least one valid colour; the colours of
\* direct arguments are converted and printed, never scored.
C17_CacheEntriesScored ==
    mpc \in {"statistics", "done"} =>
        LET direct == ValidDirect(args_colors)
            cached == CacheItems(args_cache)
        IN  /\ printed = entries
            /\ collected = SubSeq(entries, Len(direct) + 1, Len(entries))
            /\ {collected[i] : i \in 1..Len(collected)} = cached
            /\ Len(collected) = Cardinality(cached)
            /\ \A i \in 1..Len(direct) :
                  \A j \in 1..Len(collected) : collected[j] # direct[i]
            /\ mpc = "statistics" <=> cached # {}

\* a run with a valid direct colour and a cache of two colours: three
\* entries printed, the two of the cache handed to the statistics
C17_Witness ==
    /\ mpc = "statistics"
    /\ ValidDirect(args_colors) # <<>>
    /\ Len(printed) = 3
    /\ Len(collected) = 2
    /\ collected # entries

-----------------------------------------------------------------------------
(* The statistics stage: calculate_statistics, analyze_distribution,       *)
(* calculate_randomness_score, display_statistics.  Samples are integers;  *)
(* a real result is kept exact, as a fraction <<numerator, denominator>>.  *)

MaxSamples == 8

\* np.sum, added up by halves
RECURSIVE SeqSum(_)
SeqSum(xs) ==
    IF xs = <<>> THEN 0
    ELSE IF Len(xs) = 1 THEN xs[1]
    ELSE LET h == Len(xs) \div 2
         IN  SeqSum(SubSeq(xs, 1, h)) + SeqSum(SubSeq(xs, h + 1, Len(xs)))

SeqMin(xs) == CHOOSE m \in {xs[i] : i \in 1..Len(xs)} :
                \A i \in 1..Len(xs) : m <= xs[i]

SeqMax(xs) == CHOOSE m \in {xs[i] : i \in 1..Len(xs)} :
                \A i \in 1..Len(xs) : m >= xs[i]

\* np.sort: place k holds the value with fewer than k samples below it and
\* at least k samples not above it
Sorted(xs) ==
    [k \in 1..Len(xs) |->
        CHOOSE v \in {xs[i] : i \in 1..Len(xs)} :
            /\ Cardinality({i \in 1..Len(xs) : xs[i] < v}) < k
            /\ k <= Cardinality({i \in 1..Len(xs) : xs[i] <= v})]

SetMax(S) == CHOOSE m \in S : \A x \in S : x <= m

\* calculate_statistics (lines 100-114): None for an empty list, else a
\* dict with the seven keys; of its values the model keeps min, max and
\* the mean (as sum over count)
calculate_statistics(vals) ==
    IF vals = <<>> THEN [none |-> TRUE, keys |-> {}, min |-> 0, max |-> 0,
                         mean |-> <<0, 1>>]
    ELSE [none |-> FALSE,
          keys |-> {"min", "max", "mean", "median", "std", "q1", "q3"},
          min |-> SeqMin(vals), max |-> SeqMax(vals),
          mean |-> <<SeqSum(vals), Len(vals)>>]

\* The statistic of stats.kstest(normalized, 'uniform'), where normalized is
\* (values - min) / (max - min): the largest distance between the empirical
\* distribution function and the uniform one, as a fraction over n*(max-min).
KsStatistic(vals) ==
    LET xs == Sorted(vals)
        n == Len(xs)
        lo == xs[1]
        range == xs[n] - lo
    IN  <<SetMax({i * range - n * (xs[i] - lo) : i \in 1..n}
                 \cup {n * (xs[i] - lo) - (i - 1) * range : i \in 1..n}),
          n * range>>

\* The value of the statistic at which the p-value of the two-sided test
\* for n samples is 0.05, in units of 1/100000 (the exact distribution of
\* the Kolmogorov-Smirnov statistic).
KsCritical(n) ==
    CASE n = 8 -> 45427
      [] n = 9 -> 43001
      [] n = 10 -> 40925
      [] n = 11 -> 39122
      [] n = 12 -> 37543
      [] n = 60 -> 17230

\* the p-value of stats.kstest, as far as the code reads it: above 0.05 or not
KsPValue(n, ks) ==
    IF ks[1] * 100000 < KsCritical(n) * ks[2] THEN "above" ELSE "below"

\* AnalyzeNonConstant, had the KS test needed more than 8 samples
AnalyzeNonConstant_MoreThan8(vals, have_stats) ==
    LET n == Len(vals)
        tested == have_stats /\ n > 8
        ks == KsStatistic(vals)
        s1 == SeqSum(vals)
        s2 == SeqSum([i \in 1..n |-> vals[i] * vals[i]])
    IN  [type |-> IF ~tested THEN "unknown"
                  ELSE IF KsPValue(n, ks) = "above" THEN "uniform-like"
                  ELSE IF ks[1] * 10 < 2 * ks[2] THEN "fairly uniform"
                  ELSE "non-uniform",
         keys |-> {"type"}
                  \cup (IF tested THEN {"ks_statistic", "ks_pvalue"} ELSE {})
                  \cup (IF s1 # 0 THEN {"cv"} ELSE {}),
         uniformity_score |-> 0,
         ks_statistic |-> IF tested THEN ks ELSE <<0, 1>>,
         ks_pvalue |-> IF tested THEN KsPValue(n, ks) ELSE "",
         cv |-> IF s1 # 0 THEN <<n * s2 - s1 * s1, s1 * s1>> ELSE <<0, 1>>]

\* AnalyzeNonConstant, had the coefficient of variation been computed inside
\* the branch of the KS test
AnalyzeNonConstant_CvWhenTested(vals, have_stats) ==
    LET n == Len(vals)
        tested == have_stats /\ n >= 8
        ks == KsStatistic(vals)
        s1 == SeqSum(vals)
        s2 == SeqSum([i \in 1..n |-> vals[i] * vals[i]])
        has_cv == tested /\ s1 # 0
    IN  [type |-> IF ~tested THEN "unknown"
                  ELSE IF KsPValue(n, ks) = "above" THEN "uniform-like"
                  ELSE IF ks[1] * 10 < 2 * ks[2] THEN "fairly uniform"
                  ELSE "non-uniform",
         keys |-> {"type"}
                  \cup (IF tested THEN {"ks_statistic", "ks_pvalue"} ELSE {})
                  \cup (IF has_cv THEN {"cv"} ELSE {}),
         uniformity_score |-> 0,
         ks_statistic |-> IF tested THEN ks ELSE <<0, 1>>,
         ks_pvalue |-> IF tested THEN KsPValue(n, ks) ELSE "",
         cv |-> IF has_cv THEN <<n * s2 - s1 * s1, s1 * s1>> ELSE <<0, 1>>]

\* lines 129-157 of analyze_distribution: samples that are not all equal.
\* The coefficient of variation is kept squared: (n*sum(v^2) - sum(v)^2) /
\* sum(v)^2.
AnalyzeNonConstant(vals, have_stats) ==
    LET n == Len(vals)
        tested == have_stats /\ n >= 8
        ks == KsStatistic(vals)
        s1 == SeqSum(vals)
        s2 == SeqSum([i \in 1..n |-> vals[i] * vals[i]])
    IN  [type |-> IF ~tested THEN "unknown"
                  ELSE IF KsPValue(n, ks) = "above" THEN "uniform-like"
                  ELSE IF ks[1] * 10 < 2 * ks[2] THEN "fairly uniform"
                  ELSE "non-uniform",
         keys |-> {"type"}
                  \cup (IF tested THEN {"ks_statistic", "ks_pvalue"} ELSE {})
                  \cup (IF s1 # 0 THEN {"cv"} ELSE {}),
         uniformity_score |-> 0,
         ks_statistic |-> IF tested THEN ks ELSE <<0, 1>>,
         ks_pvalue |-> IF tested THEN KsPValue(n, ks) ELSE "",
         cv |-> IF s1 # 0 THEN <<n * s2 - s1 * s1, s1 * s1>> ELSE <<0, 1>>]

\* analyze_distribution (lines 117-157); have_stats: stats is not None
analyze_distribution(vals, have_stats) ==
    IF Len(vals) < 3
    THEN [NoDist EXCEPT !.type = "insufficient data", !.keys = {"type"}]
    ELSE IF SeqMax(vals) - SeqMin(vals) = 0
    THEN [NoDist EXCEPT !.type = "constant",
                        !.keys = {"type", "uniformity_score"}]
    ELSE AnalyzeNonConstant(vals, have_stats)

\* the samples analyze_distribution is called on: every list of at most
\* MaxSamples values, and a list of 60 samples, 11 of them equal to the minimum
SampleValues == {-1, 0, 2}

LongSample == [i \in 1..60 |-> IF i <= 11 THEN 0 ELSE i - 11]

Samples ==
    UNION {[1..n -> SampleValues] : n \in 0..MaxSamples} \cup {LongSample}

InitDist ==
    /\ GenIdle
    /\ CacheIdle /\ ParseIdle /\ MainIdle
    /\ scipy \in BOOLEAN
    /\ values \in Samples
    /\ dist = NoDist
    /\ apc = "call"
    /\ l_values = <<>> /\ a_values = <<>> /\ b_values = <<>>
    /\ delta_e_values = <<>> /\ col_stats = <<>> /\ col_dist = <<>>
    /\ randomness = <<>> /\ dpc = "idle"

\* a call of analyze_distribution
Analyze ==
    /\ apc = "call"
    /\ dist' = analyze_distribution(values, scipy)
    /\ apc' = "returned"
    /\ UNCHANGED <<genVars, values, scipy, cacheVars, parseVars, mainVars, statVars>>

NextDist == Analyze

SpecDist == InitDist /\ [][NextDist]_vars

-----------------------------------------------------------------------------
(* C10 *)

AllEqual(xs) == \A i, j \in 1..Len(xs) : xs[i] = xs[j]

HasKs(d) == "ks_statistic" \in d.keys

\* the label the claim gives a result that carries a KS statistic
KsLabel(d) ==
    IF d.ks_pvalue = "above" THEN "uniform-like"
    ELSE IF d.ks_statistic[1] * 5 < d.ks_statistic[2] THEN "fairly uniform"
    ELSE "non-uniform"

\* C10 as claimed: the decision table of analyze_distribution, with a KS
\* statistic in the result exactly when there are 8 or more samples that
\* are not all equal.
C10_AsClaimed ==
    apc = "returned" =>
        LET n == Len(values)
        IN  /\ n < 3 => dist.type = "insufficient data"
            /\ (n >= 3 /\ AllEqual(values)) =>
                  /\ dist.type = "constant"
                  /\ "uniformity_score" \in dist.keys
                  /\ dist.uniformity_score = 0
            /\ (n >= 3 /\ n < 8 /\ ~AllEqual(values)) => dist.type = "unknown"
            /\ (n >= 8 /\ ~AllEqual(values)) =>
                  /\ {"ks_statistic", "ks_pvalue"} \subseteq dist.keys
                  /\ dist.type = KsLabel(dist)
            /\ HasKs(dist) <=> (n >= 8 /\ ~AllEqual(values))

\* C10, amended: the same table with the KS test run only when scipy could
\* be imported; without scipy, 3 or more samples that are not all equal give
\* 'unknown' and no KS statistic, whatever their number.
C10_DecisionTable ==
    apc = "returned" =>
        LET n == Len(values)
            tested == scipy /\ n >= 8 /\ ~AllEqual(values)
        IN  /\ n < 3 => dist.type = "insufficient data"
            /\ (n >= 3 /\ AllEqual(values)) =>
                  /\ dist.type = "constant"
                  /\ "uniformity_score" \in dist.keys
                  /\ dist.uniformity_score = 0
            /\ (n >= 3 /\ ~AllEqual(values) /\ ~tested) => dist.type = "unknown"
            /\ tested =>
                  /\ {"ks_statistic", "ks_pvalue"} \subseteq dist.keys
                  /\ dist.type = KsLabel(dist)
                  /\ dist.ks_statistic = KsStatistic(values)
            /\ HasKs(dist) <=> tested
            /\ "ks_pvalue" \in dist.keys <=> tested
            /\ "type" \in dist.keys

\* the test rejects uniformity for a sample whose KS statistic is below 0.2
C10_Witness ==
    /\ apc = "returned"
    /\ scipy
    /\ dist.type = "fairly uniform"
    /\ dist.ks_pvalue = "below"
    /\ HasKs(dist)

-----------------------------------------------------------------------------
(* C11 *)

\* the sum of the squares of n*v - sum(v) over the samples v: n^3 times the
\* population variance
SquaredDeviations(xs) ==
    LET n == Len(xs)
        s == SeqSum(xs)
    IN  SeqSum([i \in 1..n |-> (n * xs[i] - s) * (n * xs[i] - s)])

\* C11 as claimed: whenever the mean of the samples is not zero the result
\* of analyze_distribution carries a coefficient of variation, whatever the
\* number of samples and whatever the classification, 'insufficient data'
\* and 'constant' included.
C11_AsClaimed ==
    (apc = "returned" /\ values # <<>> /\ SeqSum(values) # 0) =>
        "cv" \in dist.keys

\* C11, amended: for 3 or more samples that are not all equal the result
\* carries the coefficient of variation std/|mean| exactly when the mean is
\* not zero, whether or not there are the 8 samples of the KS test; the
\* results 'insufficient data' and 'constant' never carry it.
C11_CvReported ==
    apc = "returned" =>
        LET n == Len(values)
            s == SeqSum(values)
        IN  /\ ("cv" \in dist.keys) <=> (n >= 3 /\ ~AllEqual(values) /\ s # 0)
            /\ "cv" \in dist.keys =>
                  /\ dist.cv[2] = s * s
                  /\ dist.cv[1] * n = SquaredDeviations(values)
            /\ dist.type \in {"insufficient data", "constant"} =>
                  "cv" \notin dist.keys

\* fewer than 8 samples, classified 'unknown', with a coefficient of
\* variation that is not zero
C11_Witness ==
    /\ apc = "returned"
    /\ Len(values) < 8
    /\ dist.type = "unknown"
    /\ "cv" \in dist.keys
    /\ dist.cv[1] > 0

-----------------------------------------------------------------------------
(* display_statistics *)

(* The sub-scores of calculate_randomness_score are real numbers; the model *)
(* keeps them in thousandths of a point, rounded down.                     *)

\* num/den in thousandths
Thousandths(num, den) == (1000 * num) \div den

\* the integer part of the square root
ISqrt(v) == CHOOSE r \in 0..v : r * r <= v /\ v < (r + 1) * (r + 1)

\* the sum of the first terms of the exponential series of x, x in
\* hundredths and the sum in millionths
RECURSIVE ExpSeries(_, _, _)
ExpSeries(x, k, term) ==
    IF term = 0 THEN 0
    ELSE term + ExpSeries(x, k + 1, (term * x) \div (100 * (k + 1)))

\* np.exp(-x) in thousandths, x in hundredths
ExpNeg(x) == 1000000000 \div ExpSeries(x, 0, 1000000)

\* np.log2 of a count, in units of 1/100000
Log2(c) ==
    CASE c = 1 -> 0
      [] c = 2 -> 100000
      [] c = 3 -> 158496
      [] c = 4 -> 200000
      [] c = 5 -> 232193
      [] c = 6 -> 258496
      [] c = 7 -> 280735
      [] c = 8 -> 300000
      [] c = 9 -> 316993
      [] c = 10 -> 332193
      [] c = 11 -> 345943
      [] c = 12 -> 358496

\* ks_score, had a channel been given a quarter of 25 points
ks_score_QuarterOf25(d) ==
    IF HasKs(d)
    THEN LET ks == d.ks_statistic
             score == Thousandths(25 * (ks[2] - ks[1]), ks[2])
         IN  (IF score > 0 THEN score ELSE 0) \div 4
    ELSE 0

\* lines 176-180: what one channel adds to uniformity_score, ks_score / 4
\* with ks_score = max(0, 100 * (1 - ks_statistic)); nothing without the key
ks_score(d) ==
    IF HasKs(d)
    THEN LET ks == d.ks_statistic
             score == Thousandths(100 * (ks[2] - ks[1]), ks[2])
         IN  (IF score > 0 THEN score ELSE 0) \div 4
    ELSE 0

\* uniformity_score, had the sum over the channels not been capped
uniformity_score_Uncapped(l, a, b, de, have_stats) ==
    ks_score(analyze_distribution(l, have_stats))
    + ks_score(analyze_distribution(a, have_stats))
    + ks_score(analyze_distribution(b, have_stats))
    + ks_score(analyze_distribution(de, have_stats))

\* lines 173-182: the uniformity sub-score
uniformity_score(l, a, b, de, have_stats) ==
    LET total == ks_score(analyze_distribution(l, have_stats))
                 + ks_score(analyze_distribution(a, have_stats))
                 + ks_score(analyze_distribution(b, have_stats))
                 + ks_score(analyze_distribution(de, have_stats))
    IN  IF total > 25000 THEN 25000 ELSE total

\* lines 185-195: the coverage sub-score
coverage_score(l, a, b) ==
    LET l_coverage == Thousandths(SeqMax(l) - SeqMin(l), 100)
        a_coverage == Thousandths(SeqMax(a) - SeqMin(a), 255)
        b_coverage == Thousandths(SeqMax(b) - SeqMin(b), 255)
    IN  (25 * (l_coverage + a_coverage + b_coverage)) \div 3

\* np.diff
Diff(xs) == [i \in 1..(Len(xs) - 1) |-> xs[i + 1] - xs[i]]

\* spacing.std() / spacing.mean() in hundredths, 0 when the mean is not
\* positive (line 205)
SpacingCv(spacing) ==
    LET m == Len(spacing)
        s1 == SeqSum(spacing)
        s2 == SeqSum([i \in 1..m |-> spacing[i] * spacing[i]])
    IN  IF s1 > 0 THEN ISqrt((10000 * (m * s2 - s1 * s1)) \div (s1 * s1))
        ELSE 0

\* spacing_score, had the differences been taken of the samples as given
spacing_score_Unsorted(de) ==
    LET spacing == Diff(de)
        spacing_cv == SpacingCv(spacing)
        away == IF spacing_cv >= 75 THEN spacing_cv - 75 ELSE 75 - spacing_cv
    IN  25 * ExpNeg(away)

\* lines 202-208: the spacing sub-score of 2 or more dE samples
spacing_score(de) ==
    LET spacing == Diff(Sorted(de))
        spacing_cv == SpacingCv(spacing)
        away == IF spacing_cv >= 75 THEN spacing_cv - 75 ELSE 75 - spacing_cv
    IN  25 * ExpNeg(away)

\* np.histogram(values, bins=10) (line 216): the number of samples in each
\* of 10 bins of equal width from the least to the greatest sample, the
\* last bin closed; samples that are all equal get the range of width 1
\* around them and fall in one bin
Histogram(xs) ==
    LET lo == SeqMin(xs)
        hi == SeqMax(xs)
        bin(v) == IF hi = lo THEN 6
                  ELSE IF v = hi THEN 10
                  ELSE (10 * (v - lo)) \div (hi - lo) + 1
    IN  [k \in 1..10 |-> Cardinality({i \in 1..Len(xs) : bin(xs[i]) = k})]

\* calculate_entropy (lines 215-219) over max_entropy (lines 222-225), in
\* thousandths: -sum(p * log2(p)) over the bins that are not empty, which
\* is sum(c * (log2(n) - log2(c))) / n for the counts c of the n samples
calculate_entropy(xs) ==
    LET hist == Histogram(xs)
        n == Len(xs)
        bits == SeqSum([k \in 1..10 |->
                          IF hist[k] > 0
                          THEN hist[k] * (Log2(n) - Log2(hist[k])) ELSE 0])
                \div n
    IN  Thousandths(bits, Log2(10))

\* lines 223-227: the entropy sub-score
entropy_score(l, a, b) ==
    (25 * (calculate_entropy(l) + calculate_entropy(a) + calculate_entropy(b)))
    \div 3

\* sum(scores)
RECURSIVE SumScores(_)
SumScores(scores) ==
    IF scores = <<>> THEN 0
    ELSE Head(scores).value + SumScores(Tail(scores))

\* calculate_randomness_score, had the entropy term needed more than 5
\* samples
calculate_randomness_score_EntropyAbove5(l, a, b, de, have_stats) ==
    IF Len(l) < 3
    THEN [early |-> TRUE, scores |-> <<>>, ks_read |-> {}, total |-> 0]
    ELSE LET scores ==
                 <<[term |-> "uniformity",
                    value |-> uniformity_score(l, a, b, de, have_stats)],
                   [term |-> "coverage", value |-> coverage_score(l, a, b)]>>
                 \o (IF Len(de) > 1
                     THEN <<[term |-> "spacing", value |-> spacing_score(de)]>>
                     ELSE <<>>)
                 \o (IF Len(l) > 5
                     THEN <<[term |-> "entropy",
                             value |-> entropy_score(l, a, b)]>>
                     ELSE <<>>)
         IN  [early |-> FALSE,
              scores |-> scores,
              ks_read |-> {c \in 1..4 :
                              HasKs(analyze_distribution(<<l, a, b, de>>[c],
                                                         have_stats))},
              total |-> SumScores(scores)]

\* calculate_randomness_score (lines 160-230): 0.0 and no sub-score for
\* fewer than 3 samples of L; otherwise the sub-scores appended to scores,
\* in order and each under the name of its term, and their sum.  ks_read:
\* the channels whose KS statistic the uniformity loop reads, each read
\* guarded by the key test of line 176.
calculate_randomness_score(l, a, b, de, have_stats) ==
    IF Len(l) < 3
    THEN [early |-> TRUE, scores |-> <<>>, ks_read |-> {}, total |-> 0]
    ELSE LET scores ==
                 <<[term |-> "uniformity",
                    value |-> uniformity_score(l, a, b, de, have_stats)],
                   [term |-> "coverage", value |-> coverage_score(l, a, b)]>>
                 \o (IF Len(de) > 1
                     THEN <<[term |-> "spacing", value |-> spacing_score(de)]>>
                     ELSE <<>>)
                 \o (IF Len(l) >= 5
                     THEN <<[term |-> "entropy",
                             value |-> entropy_score(l, a, b)]>>
                     ELSE <<>>)
         IN  [early |-> FALSE,
              scores |-> scores,
              ks_read |-> {c \in 1..4 :
                              HasKs(analyze_distribution(<<l, a, b, de>>[c],
                                                         have_stats))},
              total |-> SumScores(scores)]

\* the shapes a channel of n samples takes
Channel(shape, n) ==
    CASE shape = "constant" -> [i \in 1..n |-> 5]
      [] shape = "ramp" -> [i \in 1..n |-> i]
      [] shape = "step" -> [i \in 1..n |-> IF i = n THEN 1 ELSE 0]

Shapes == {"constant", "ramp", "step"}

InitStats ==
    /\ GenIdle
    /\ CacheIdle /\ ParseIdle /\ MainIdle
    /\ scipy \in BOOLEAN
    /\ values = <<>> /\ dist = NoDist /\ apc = "idle"
    /\ \E n \in 1..MaxSamples, sl, sa, sb, sd \in Shapes :
          /\ l_values = Channel(sl, n)
          /\ a_values = Channel(sa, n)
          /\ b_values = Channel(sb, n)
          /\ delta_e_values = Channel(sd, n)
    /\ col_stats = <<>>
    /\ col_dist = <<>>
    /\ randomness = <<>>
    /\ dpc = "statistics"

\* lines 235-261: the four calculate_statistics calls and the table, whose
\* rows subscript each result
ShowStatistics ==
    /\ dpc = "statistics"
    /\ col_stats' = <<calculate_statistics(l_values),
                      calculate_statistics(a_values),
                      calculate_statistics(b_values),
                      calculate_statistics(delta_e_values)>>
    /\ dpc' = IF \E c \in 1..4 : col_stats'[c].none
              THEN "TypeError" ELSE "distribution"
    /\ UNCHANGED <<genVars, l_values, a_values, b_values, delta_e_values, col_dist,
                   randomness, scipy, distVars, cacheVars, parseVars, mainVars>>

\* lines 263-270: the four analyze_distribution calls
ShowDistribution ==
    /\ dpc = "distribution"
    /\ col_dist' = <<analyze_distribution(l_values, scipy),
                     analyze_distribution(a_values, scipy),
                     analyze_distribution(b_values, scipy),
                     analyze_distribution(delta_e_values, scipy)>>
    /\ dpc' = "ks"
    /\ UNCHANGED <<genVars, l_values, a_values, b_values, delta_e_values, col_stats,
                   randomness, scipy, distVars, cacheVars, parseVars, mainVars>>

\* lines 272-275: when l_dist has a KS statistic, the two rows subscript
\* 'ks_statistic' and 'ks_pvalue' of all four results
ShowKs ==
    /\ dpc = "ks"
    /\ dpc' = IF HasKs(col_dist[1])
                 /\ \E c \in 1..4 :
                       ~({"ks_statistic", "ks_pvalue"} \subseteq col_dist[c].keys)
              THEN "KeyError" ELSE "score"
    /\ UNCHANGED <<genVars, l_values, a_values, b_values, delta_e_values, col_stats,
                   col_dist, randomness, scipy, distVars, cacheVars, parseVars,
                   mainVars>>

\* lines 277-279
ShowScore ==
    /\ dpc = "score"
    /\ randomness' = calculate_randomness_score(l_values, a_values, b_values,
                                                delta_e_values, scipy)
    /\ dpc' = "interpret"
    /\ UNCHANGED <<genVars, l_values, a_values, b_values, delta_e_values, col_stats,
                   col_dist, scipy, distVars, cacheVars, parseVars, mainVars>>

\* lines 281-292
ShowInterpretation ==
    /\ dpc = "interpret"
    /\ dpc' = "done"
    /\ UNCHANGED <<genVars, l_values, a_values, b_values, delta_e_values, col_stats,
                   col_dist, randomness, scipy, distVars, cacheVars, parseVars,
                   mainVars>>

NextStats ==
    ShowStatistics \/ ShowDistribution \/ ShowKs \/ ShowScore
    \/ ShowInterpretation

SpecStats == InitStats /\ [][NextStats]_vars

-----------------------------------------------------------------------------
(* calculate_randomness_score, called on its own *)

\* the shapes the samples of a channel take between lo and hi: all equal,
\* evenly spread in rising order, evenly spread out of order, all at lo but
\* the last
ScoreShapes == {"constant", "ramp", "scattered", "step"}

Ramp(lo, hi, n, i) == IF n = 1 THEN lo ELSE lo + ((i - 1) * (hi - lo)) \div (n - 1)

ScoreChannel(shape, lo, hi, n) ==
    CASE shape = "constant" -> [i \in 1..n |-> hi]
      [] shape = "ramp" -> [i \in 1..n |-> Ramp(lo, hi, n, i)]
      [] shape = "scattered" -> [i \in 1..n |-> Ramp(lo, hi, n, ((3 * i) % n) + 1)]
      [] shape = "step" -> [i \in 1..n |-> IF i = n THEN hi ELSE lo]

\* the four lists of a call: L in [0, 100], a and b in [-128, 127], dE not
\* negative; the first three of one length, the dE list of that length or
\* shorter
InitScore ==
    /\ GenIdle
    /\ CacheIdle /\ ParseIdle /\ MainIdle
    /\ scipy \in BOOLEAN
    /\ values = <<>> /\ dist = NoDist /\ apc = "idle"
    /\ \E n \in 0..MaxSamples, sl, sa, sb, sd \in ScoreShapes :
          /\ l_values = ScoreChannel(sl, 0, 100, n)
          /\ a_values = ScoreChannel(sa, -128, 127, n)
          /\ b_values = ScoreChannel(sb, -128, 127, n)
          /\ \E nd \in {0, 1, n} \cap 0..n :
                delta_e_values = SubSeq(ScoreChannel(sd, 0, 100, n), 1, nd)
    /\ col_stats = <<>>
    /\ col_dist = <<>>
    /\ randomness = <<>>
    /\ dpc = "call"

\* a call of calculate_randomness_score
Score ==
    /\ dpc = "call"
    /\ randomness' = calculate_randomness_score(l_values, a_values, b_values,
                                                delta_e_values, scipy)
    /\ dpc' = "returned"
    /\ UNCHANGED <<genVars, l_values, a_values, b_values, delta_e_values, col_stats,
                   col_dist, scipy, distVars, cacheVars, parseVars, mainVars>>

NextScore == Score

SpecScore == InitScore /\ [][NextScore]_vars

-----------------------------------------------------------------------------
(* C12 *)

\* the four lists are of one length
EqualLength ==
    /\ Len(a_values) = Len(l_values)
    /\ Len(b_values) = Len(l_values)
    /\ Len(delta_e_values) = Len(l_values)

\* L in [0, 100], a and b in [-128, 127]
ValidChannels ==
    /\ \A i \in 1..Len(l_values) : l_values[i] >= 0 /\ l_values[i] <= 100
    /\ \A i \in 1..Len(a_values) : a_values[i] >= -128 /\ a_values[i] <= 127
    /\ \A i \in 1..Len(b_values) : b_values[i] >= -128 /\ b_values[i] <= 127

\* the value appended for a term, none if the term was not computed
TermValue(r, term) ==
    LET at == {i \in 1..Len(r.scores) : r.scores[i].term = term}
    IN  IF at = {} THEN "none" ELSE r.scores[CHOOSE i \in at : TRUE].value

Terms(r) == {r.scores[i].term : i \in 1..Len(r.scores)}

\* C12: for four lists of one length with L in [0, 100] and a, b in
\* [-128, 127], calculate_randomness_score returns a value from 0 to 100, and
\* each sub-score it sums is from 0 to 25 (in thousandths: 100000 and 25000).
C12_ScoreRange ==
    (dpc = "returned" /\ EqualLength /\ ValidChannels) =>
        /\ randomness.total >= 0
        /\ randomness.total <= 100000
        /\ \A i \in 1..Len(randomness.scores) :
              /\ randomness.scores[i].value >= 0
              /\ randomness.scores[i].value <= 25000

\* all four sub-scores computed, two of them at the top of their range: the
\* channels span their whole range and the capped uniformity sum is 25
C12_Witness ==
    /\ dpc = "returned"
    /\ EqualLength /\ ValidChannels
    /\ Len(randomness.scores) = 4
    /\ TermValue(randomness, "uniformity") = 25000
    /\ TermValue(randomness, "coverage") = 25000
    /\ randomness.total > 75000

-----------------------------------------------------------------------------
(* C13 *)

\* the sum of the values of the terms of T that were computed
RECURSIVE SumOfTerms(_, _)
SumOfTerms(r, T) ==
    IF T = {} THEN 0
    ELSE LET t == CHOOSE x \in T : TRUE
         IN  (IF t \in Terms(r) THEN TermValue(r, t) ELSE 0)
             + SumOfTerms(r, T \ {t})

\* C13: which sub-scores calculate_randomness_score sums depends only on the
\* number of samples: below 3 the result is 0 with no sub-score; from 3 on
\* uniformity and coverage are always summed, spacing exactly when there
\* are 2 or more dE samples, entropy exactly when there are 5 or more
\* samples; a term that is not computed is absent from the list that is
\* summed, each computed term is in it once, and the result is their sum.
C13_TermsSummed ==
    dpc = "returned" =>
        LET n == Len(l_values)
            due == {"uniformity", "coverage"}
                   \cup (IF Len(delta_e_values) >= 2 THEN {"spacing"} ELSE {})
                   \cup (IF n >= 5 THEN {"entropy"} ELSE {})
        IN  /\ n < 3 => /\ randomness.early
                        /\ randomness.scores = <<>>
                        /\ randomness.total = 0
            /\ n >= 3 => /\ ~randomness.early
                         /\ Terms(randomness) = due
                         /\ Len(randomness.scores) = Cardinality(due)
                         /\ randomness.total = SumOfTerms(randomness, due)
            /\ (n >= 3 /\ EqualLength) => "spacing" \in Terms(randomness)

\* 3 or 4 samples in each list: three terms are summed to a score that is
\* not zero, the entropy term is absent
C13_Witness ==
    /\ dpc = "returned"
    /\ EqualLength
    /\ Len(l_values) \in {3, 4}
    /\ Terms(randomness) = {"uniformity", "coverage", "spacing"}
    /\ Len(randomness.scores) = 3
    /\ randomness.total > 0

-----------------------------------------------------------------------------
(* C14 *)

Permute(xs, p) == [i \in 1..Len(xs) |-> xs[p[i]]]

\* the order that sorts xs, equal samples kept in their order
SortingOrder(xs) ==
    LET n == Len(xs)
        rank(i) == Cardinality({j \in 1..n :
                                   xs[j] < xs[i] \/ (xs[j] = xs[i] /\ j < i)}) + 1
    IN  [k \in 1..n |-> CHOOSE i \in 1..n : rank(i) = k]

\* reorderings of a batch of n samples: every exchange of two samples (they
\* generate all the others), the reversal, the rotation by one, and the
\* orders that sort the batch by L and by dE
Reorderings(n) ==
    {[i \in 1..n |-> IF i = j THEN k ELSE IF i = k THEN j ELSE i] :
        j, k \in 1..n}
    \cup {[i \in 1..n |-> n + 1 - i], [i \in 1..n |-> (i % n) + 1]}
    \cup {SortingOrder(l_values), SortingOrder(delta_e_values)}

IsSorted(xs) == \A i \in 1..(Len(xs) - 1) : xs[i] <= xs[i + 1]

\* C14: calculate_randomness_score does not depend on the order of the
\* samples: the four lists reordered in the same way give the same computed
\* sub-scores and the same total.
C14_OrderInvariant ==
    (dpc = "returned" /\ EqualLength) =>
        \A p \in Reorderings(Len(l_values)) :
            LET r == calculate_randomness_score(
                         Permute(l_values, p), Permute(a_values, p),
                         Permute(b_values, p), Permute(delta_e_values, p),
                         scipy)
            IN  /\ r.scores = randomness.scores
                /\ r.total = randomness.total
                /\ r.early = randomness.early

\* a batch that is in order neither of L nor of dE, scored on all four terms
\* with the KS statistic of the dE list read
C14_Witness ==
    /\ dpc = "returned"
    /\ EqualLength
    /\ ~IsSorted(l_values)
    /\ ~IsSorted(delta_e_values)
    /\ Len(randomness.scores) = 4
    /\ 4 \in randomness.ks_read
    /\ Permute(delta_e_values, SortingOrder(delta_e_values)) # delta_e_values

-----------------------------------------------------------------------------
(* C16 *)

ChannelLists == <<l_values, a_values, b_values, delta_e_values>>

\* the KS test is run on a list: scipy imported, 8 or more samples, not all
\* equal
Tested(xs) == scipy /\ Len(xs) >= 8 /\ ~AllEqual(xs)

\* 25 * (1 - KS) for a tested list, in thousandths rounded down; 0 otherwise
QuarterOfKsScore(xs) ==
    IF Tested(xs)
    THEN LET ks == KsStatistic(xs)
         IN  (100000 * (ks[2] - ks[1])) \div (4 * ks[2])
    ELSE 0

\* C16 as claimed: in the uniformity sub-score a channel without a KS
\* statistic adds 0 and a channel with one adds at most 25/4 points (6250
\* thousandths), 25/4 at a KS statistic of 0; the total is capped at 25.
C16_AsClaimed ==
    (dpc = "returned" /\ EqualLength /\ ~randomness.early) =>
        /\ \A c \in 1..4 :
              LET d == analyze_distribution(ChannelLists[c], scipy)
              IN  /\ ~HasKs(d) => ks_score(d) = 0
                  /\ HasKs(d) => ks_score(d) <= 6250
                  /\ (HasKs(d) /\ d.ks_statistic[1] = 0) => ks_score(d) = 6250
        /\ TermValue(randomness, "uniformity") <= 25000

\* C16, amended: a channel without a KS statistic adds 0 and a channel with
\* one adds 100 * (1 - KS) / 4 = 25 * (1 - KS) points, which is at most 25;
\* the uniformity sub-score is the sum over the four channels capped at 25.
C16_Uniformity ==
    (dpc = "returned" /\ ~randomness.early) =>
        LET sum == QuarterOfKsScore(l_values) + QuarterOfKsScore(a_values)
                   + QuarterOfKsScore(b_values)
                   + QuarterOfKsScore(delta_e_values)
        IN  /\ \A c \in 1..4 :
                  LET d == analyze_distribution(ChannelLists[c], scipy)
                  IN  /\ HasKs(d) <=> Tested(ChannelLists[c])
                      /\ ks_score(d) = QuarterOfKsScore(ChannelLists[c])
                      /\ ks_score(d) >= 0 /\ ks_score(d) <= 25000
                      /\ ~HasKs(d) => ks_score(d) = 0
            /\ TermValue(randomness, "uniformity")
                  = (IF sum > 25000 THEN 25000 ELSE sum)

\* one call in which a channel with a KS statistic adds more than 25/4
\* points, a channel without one adds nothing, and the cap cuts the sum
C16_Witness ==
    /\ dpc = "returned" /\ ~randomness.early
    /\ QuarterOfKsScore(l_values) > 6250
    /\ 1 \in randomness.ks_read
    /\ 2 \notin randomness.ks_read
    /\ QuarterOfKsScore(a_values) = 0
    /\ QuarterOfKsScore(l_values) + QuarterOfKsScore(delta_e_values) > 25000
    /\ TermValue(randomness, "uniformity") = 25000

-----------------------------------------------------------------------------
(* C9 *)

\* C9: for every batch of at least one sample the statistics stage
\* completes without raising, whatever the classify outcomes of the four
\* channels; no KS statistic is read from a result that holds none.
C9_NeverRaises ==
    /\ dpc \notin {"KeyError", "TypeError"}
    /\ dpc \in {"score", "interpret", "done"} =>
          (HasKs(col_dist[1]) => \A c \in 1..4 : HasKs(col_dist[c]))

-----------------------------------------------------------------------------
(* generate_colors.main: the generation loop (lines 204-222) *)

MaxCount == 2

\* args.min_delta_e: absent, a number, or the float nan
Thresholds ==
    {NoThreshold, [kind |-> "nan", value |-> 0]}
    \cup {[kind |-> "number", value |-> v] : v \in {0, 5, 20}}

\* the dE to the background of the colours generate_random_color draws
GenDeltaEs == {0, 5, 9}

\* the truth value of args.min_delta_e (line 207): None and 0.0 are false
Truthy(t) == t.kind = "nan" \/ (t.kind = "number" /\ t.value # 0)

\* delta_e < args.min_delta_e (line 216): false of nan
Less(de, t) == t.kind = "number" /\ de < t.value

InitGen ==
    /\ CacheIdle /\ ParseIdle /\ MainIdle /\ StatsIdle
    /\ count \in -1..MaxCount
    /\ min_delta_e \in Thresholds
    /\ gen_colors = <<>>
    /\ attempts = 0
    /\ max_attempts = 0
    /\ warned = FALSE
    /\ gpc = "setup"

\* lines 205-207
GenSetup ==
    /\ gpc = "setup"
    /\ gen_colors' = <<>>
    /\ attempts' = 0
    /\ max_attempts' = IF Truthy(min_delta_e) THEN count * 100 ELSE count
    /\ gpc' = "loop"
    /\ UNCHANGED <<count, min_delta_e, warned, cacheVars, parseVars, mainVars,
                   scipy, distVars, statVars>>

\* Iterate, had the colour been kept whatever its dE
Iterate_AppendAlways ==
    /\ gpc = "loop"
    /\ Len(gen_colors) < count /\ attempts < max_attempts
    /\ attempts' = attempts + 1
    /\ \E de \in GenDeltaEs : gen_colors' = Append(gen_colors, de)
    /\ UNCHANGED <<count, min_delta_e, max_attempts, warned, gpc, cacheVars,
                   parseVars, mainVars, scipy, distVars, statVars>>

\* lines 209-219: one iteration of the while loop
Iterate ==
    /\ gpc = "loop"
    /\ Len(gen_colors) < count /\ attempts < max_attempts
    /\ attempts' = attempts + 1
    /\ \E de \in GenDeltaEs :
          gen_colors' = IF min_delta_e.kind # "None" /\ Less(de, min_delta_e)
                        THEN gen_colors
                        ELSE Append(gen_colors, de)
    /\ UNCHANGED <<count, min_delta_e, max_attempts, warned, gpc, cacheVars,
                   parseVars, mainVars, scipy, distVars, statVars>>

\* lines 209 and 221-222: the loop condition fails; the warning
ExitLoop ==
    /\ gpc = "loop"
    /\ ~(Len(gen_colors) < count /\ attempts < max_attempts)
    /\ warned' = (Len(gen_colors) < count)
    /\ gpc' = "done"
    /\ UNCHANGED <<count, min_delta_e, gen_colors, attempts, max_attempts,
                   cacheVars, parseVars, mainVars, scipy, distVars, statVars>>

NextGen == GenSetup \/ Iterate \/ ExitLoop

\* the program runs on: a step that can be taken is taken
SpecGen == InitGen /\ [][NextGen]_vars /\ WF_vars(NextGen)

-----------------------------------------------------------------------------
(* C18 *)

Max0(x) == IF x > 0 THEN x ELSE 0

\* dE >= threshold: false of nan
AtLeast(de, t) == t.kind = "number" /\ de >= t.value

\* the number of iterations the loop is allowed: count * 100 under a
\* threshold that is neither absent nor 0.0, else count
AllowedAttempts ==
    IF min_delta_e.kind = "None"
       \/ (min_delta_e.kind = "number" /\ min_delta_e.value = 0)
    THEN count ELSE count * 100

\* C18 as claimed, the state at the exit of the loop: at most max_attempts
\* iterations were made (count * 100 under a truthy threshold, else count),
\* at most count colours are kept, every kept colour has dE >= min_delta_e
\* when a threshold was given, and the warning is printed exactly when
\* fewer than count colours were kept.
C18_AsClaimed ==
    gpc = "done" =>
        /\ max_attempts = AllowedAttempts
        /\ attempts <= max_attempts
        /\ Len(gen_colors) <= count
        /\ min_delta_e.kind # "None" =>
              \A i \in 1..Len(gen_colors) : AtLeast(gen_colors[i], min_delta_e)
        /\ warned <=> Len(gen_colors) < count

\* what holds while the loop runs and after it
GenSafe ==
    gpc \in {"loop", "done"} =>
        /\ max_attempts = AllowedAttempts
        /\ attempts >= 0
        /\ attempts <= Max0(max_attempts)
        /\ Len(gen_colors) <= attempts
        /\ Len(gen_colors) <= Max0(count)
        /\ \A i \in 1..Len(gen_colors) : ~Less(gen_colors[i], min_delta_e)
        /\ gpc = "done" => (warned <=> Len(gen_colors) < count)
        /\ gpc = "loop" => ~warned

\* C18, amended: the generation loop always terminates: each iteration
\* increments the attempt counter, the loop makes at most max_attempts
\* iterations (count * 100 under a truthy threshold, else count) and none
\* when that is negative; at the exit the number of kept colours is at most
\* count, or 0 for a negative count; no kept colour has dE to the background
\* below the threshold; the warning is printed exactly when fewer than count
\* colours were kept.
C18_Terminates ==
    /\ []GenSafe
    /\ [][(gpc = "loop" /\ gpc' = "loop") => attempts' = attempts + 1]_vars
    /\ [][gpc = "done" => gpc' = "done"]_vars
    /\ <>(gpc = "done")

\* the loop ran out of attempts under a threshold that rejected colours:
\* 200 iterations for 2 colours asked, one kept, the warning printed
C18_Witness ==
    /\ gpc = "done"
    /\ count = 2
    /\ min_delta_e = [kind |-> "number", value |-> 5]
    /\ attempts = max_attempts
    /\ attempts = 200
    /\ Len(gen_colors) = 1
    /\ warned

====
